---- MODULE Spec2Model ----
(***************************************************************************)
(* Model of the demo trading ledger, src/logic/demo_trader.py (class       *)
(* DemoAccount), of the sentiment oracle client, src/logic/                *)
(* gemini_client.py, and of the analyzer and the two-stage selector,       *)
(* src/logic/portfolio.py, as the scan handler of src/app.py runs it.      *)
(*                                                                         *)
(* Numbers.  The ledger computes with Python numbers.  Quantities, prices  *)
(* and cash are drawn from small sets of integers; the average cost is the *)
(* one value the code obtains by a division, so it is kept as an exact     *)
(* fraction [num, den] in lowest terms (den > 0).  Floating-point rounding *)
(* of that quotient is not modelled.  A division by zero raises            *)
(* ZeroDivisionError, as it does in Python for int and float operands.     *)
(*                                                                         *)
(* Optional values.  Python's None is the empty tuple, a present value x   *)
(* is the one-element tuple <<x>>.                                         *)
(***************************************************************************)
EXTENDS Integers, Sequences, FiniteSets, TLC

VARIABLES
    balance,          \* self.balance
    initial_balance,  \* self.initial_balance
    positions,        \* self.positions: ticker -> [quantity, avg_price, tp, sl]
    trade_history,    \* self.trade_history: sequence of trade records
    call,             \* the last call made on the account and its arguments
    result,           \* what that call produced: a returned pair, None, or an exception
    snapshot,         \* the dict the last to_dict returned, held by the caller
    pc,               \* where the scan handler and get_best_stocks stand
    deep_analysis_pool,  \* get_best_stocks: the candidates of stage 1
    ranked_stocks,    \* get_best_stocks: the results of stage 1
    top_5_candidates, \* get_best_stocks: the results stage 2 goes through
    final_top_5,      \* get_best_stocks: the results of stage 2
    progress,         \* the percentages the progress bar of the run was given
    analyses          \* the analyze_single_stock calls of the run: <<ticker, model_type>>

ledger == <<balance, initial_balance, positions, trade_history>>
account == <<balance, initial_balance, positions, trade_history, call, result,
             snapshot>>
selection == <<pc, deep_analysis_pool, ranked_stocks, top_5_candidates,
               final_top_5, progress, analyses>>

vars == <<balance, initial_balance, positions, trade_history, call, result,
          snapshot, pc, deep_analysis_pool, ranked_stocks, top_5_candidates,
          final_top_5, progress, analyses>>

----------------------------------------------------------------------------
(* Bounds of the model and the argument sets the calls are drawn from.     *)

MaxHist == 2          \* longest trade history explored, any arguments
MaxHistValid == 3     \* longest trade history explored, valid orders
MaxCash == 7          \* largest cash balance explored
MaxHistSnap == 2      \* longest trade history explored, with snapshots

Tickers == {"A", "B"}
OneTicker == {"A"}
Sides == {"BUY", "SELL", "HOLD"}
Quantities == {-1, 0, 1, 2}
Prices == {1, 2}
ValidQuantities == {1, 2}
ValidPrices == {1, 2}
OrderTypes == {"MARKET"}
Timestamps == {1}
InitialBalances == {0, 4}

None == <<>>
Some(x) == <<x>>
TakeProfits == {None}
StopLosses == {None}
ResetBalances == {None, Some(0), Some(2)}

\* the default of DemoAccount(initial_balance) and of from_dict's balance fields
DefaultBalance == 10000000

----------------------------------------------------------------------------
(* Exact fractions for the average cost.                                   *)

Abs(x) == IF x < 0 THEN -x ELSE x

RECURSIVE GCD(_, _)
GCD(a, b) == IF b = 0 THEN a ELSE GCD(b, a % b)

\* n / d in lowest terms with a positive denominator (d # 0).
Frac(n, d) ==
    LET g == GCD(Abs(n), Abs(d))
        s == IF d < 0 THEN -1 ELSE 1
    IN  [num |-> (s * n) \div g, den |-> (s * d) \div g]

FromInt(n) == [num |-> n, den |-> 1]

\* the product of a fraction and an integer, as a fraction
Times(f, k) == Frac(f.num * k, f.den)

FracAdd(a, b) == Frac(a.num * b.den + b.num * a.den, a.den * b.den)
FracSub(a, b) == Frac(a.num * b.den - b.num * a.den, a.den * b.den)
FracDivInt(f, k) == Frac(f.num, f.den * k)

----------------------------------------------------------------------------
(* The pieces of execute_order.                                            *)

\* total_cost = quantity * price
TotalCost(quantity, price) == quantity * price

\* mutants of the funds check: an order for exactly the cash is refused; the
\* comparison is inverted
InsufficientFunds_AtLeast(total_cost, bal) == total_cost >= bal
InsufficientFunds_Inverted(total_cost, bal) == total_cost < bal

\* if total_cost > self.balance: return False, ...
InsufficientFunds(total_cost, bal) == total_cost > bal

\* mutant: the debit credits
Debit_Adds(bal, total_cost) == bal + total_cost

\* self.balance -= total_cost
Debit(bal, total_cost) == bal - total_cost

\* mutant: the proceeds of a sale are not credited
Credit_Unpaid(bal, total_cost) == bal

\* self.balance += total_cost
Credit(bal, total_cost) == bal + total_cost

\* mutant of the position check: a sale of exactly the holding is refused
InsufficientPosition_AtMost(held, quantity) == held <= quantity

\* if self.positions[ticker]['quantity'] < quantity: return False, ...
InsufficientPosition(held, quantity) == held < quantity

\* the divisor of the weighted average; the division raises when it is 0
AvgDivisor(current_qty, quantity) == current_qty + quantity

\* mutant: the held quantity does not weight the old average
NewAvg_Unweighted(current_qty, current_avg, total_cost, quantity) ==
    Frac(current_avg.num + total_cost * current_avg.den,
         current_avg.den * AvgDivisor(current_qty, quantity))

\* new_avg = ((current_qty * current_avg) + total_cost) / (current_qty + quantity)
NewAvg(current_qty, current_avg, total_cost, quantity) ==
    Frac(current_qty * current_avg.num + total_cost * current_avg.den,
         current_avg.den * AvgDivisor(current_qty, quantity))

\* Python truthiness of an optional number: `if tp:` is false for None and for 0
Truthy(opt) == opt # None /\ opt[1] # 0

\* mutant: a new balance of 0 is taken for none
Provided_Truthy(opt) == opt # None /\ opt[1] # 0

\* `if new_balance is not None:`
Provided(opt) == opt # None

\* mutant: a position of quantity 0 is kept
PositionClosed_Negative(qty) == qty < 0

\* if self.positions[ticker]['quantity'] <= 0: del self.positions[ticker]
PositionClosed(qty) == qty <= 0

\* the dict without one key / with one key set
DelKey(d, k) == [t \in DOMAIN d \ {k} |-> d[t]]
SetKey(d, k, v) == [t \in DOMAIN d \cup {k} |-> IF t = k THEN v ELSE d[t]]
EmptyDict == [t \in {} |-> None]

\* BUY on a held ticker: quantity and average cost updated, tp/sl overwritten when truthy
AddToPosition(pos, quantity, total_cost, tp, sl) ==
    [quantity  |-> pos.quantity + quantity,
     avg_price |-> NewAvg(pos.quantity, pos.avg_price, total_cost, quantity),
     tp        |-> IF Truthy(tp) THEN tp ELSE pos.tp,
     sl        |-> IF Truthy(sl) THEN sl ELSE pos.sl]

\* BUY on an absent ticker
NewPosition(quantity, price, tp, sl) ==
    [quantity |-> quantity, avg_price |-> FromInt(price), tp |-> tp, sl |-> sl]

\* mutant: a partial sale clears the position's take-profit and stop-loss
ReducePosition_ClearsTargets(d, ticker, quantity) ==
    LET left == d[ticker].quantity - quantity
    IN  IF PositionClosed(left)
        THEN DelKey(d, ticker)
        ELSE SetKey(d, ticker, [d[ticker] EXCEPT !.quantity = left,
                                                 !.tp = None, !.sl = None])

\* SELL: quantity decremented, the position deleted when nothing is left
ReducePosition(d, ticker, quantity) ==
    LET left == d[ticker].quantity - quantity
    IN  IF PositionClosed(left)
        THEN DelKey(d, ticker)
        ELSE SetKey(d, ticker, [d[ticker] EXCEPT !.quantity = left])

\* the record appended to the history
TradeRecord(timestamp, ticker, side, quantity, price, tp, sl, order_type, total_cost) ==
    [timestamp |-> timestamp, ticker |-> ticker, side |-> side,
     quantity |-> quantity, price |-> price, tp |-> tp, sl |-> sl,
     type |-> order_type, total |-> total_cost]

\* mutants: nothing is recorded; the record is put in front
RecordHistory_Dropped(hist, rec) == hist
RecordHistory_InFront(hist, rec) == <<rec>> \o hist

\* self.trade_history.append(record)
RecordHistory(hist, rec) == Append(hist, rec)

\* mutant: every side but BUY is taken for a sale
SellSide_AnyOther(side) == side # "BUY"

\* side == "BUY", side == "SELL"
BuySide(side) == side = "BUY"
SellSide(side) == side = "SELL"

\* return values
Returned(ok, msg) == [kind |-> "pair", ok |-> ok, msg |-> msg]
ReturnedNone == [kind |-> "none", ok |-> FALSE, msg |-> ""]
Raised(exc) == [kind |-> "raise", ok |-> FALSE, msg |-> exc]

OrderCall(ticker, side, quantity, price, order_type, tp, sl) ==
    [op |-> "execute_order", ticker |-> ticker, side |-> side,
     quantity |-> quantity, price |-> price, type |-> order_type,
     tp |-> tp, sl |-> sl]

----------------------------------------------------------------------------
(* Snapshots: to_dict and from_dict.                                       *)
(*                                                                         *)
(* A snapshot value is what json.load or a caller can hand to from_dict:   *)
(* a dict (a function from some of the four keys to values), or a JSON     *)
(* value that is no dict (null, a list).  to_dict puts the account's own   *)
(* positions dict and history list into the dict it returns, and from_dict *)
(* binds the account to the objects it is given; `live` says that the held *)
(* snapshot's positions and history are the very objects the account       *)
(* mutates in place.                                                       *)

SnapshotKeys == {"balance", "positions", "trade_history", "initial_balance"}
DictValue(f) == [type |-> "dict", fields |-> f]
NullValue == [type |-> "null"]
ListValue == [type |-> "list"]
NoSnapshot == [data |-> NullValue, live |-> FALSE]

\* data.get(key, default); a value without .get raises AttributeError
HasGet(data) == data.type = "dict"
Get(data, key, default) ==
    IF key \in DOMAIN data.fields THEN data.fields[key] ELSE default

\* mutant: the snapshot leaves the initial balance out
ToDictValue_NoInitial(bal, pos, hist, initial) ==
    DictValue([k \in SnapshotKeys \ {"initial_balance"} |->
        CASE k = "balance" -> bal
          [] k = "positions" -> pos
          [] k = "trade_history" -> hist])

\* return {"balance": ..., "positions": ..., "trade_history": ..., "initial_balance": ...}
ToDictValue(bal, pos, hist, initial) ==
    DictValue([k \in SnapshotKeys |->
        CASE k = "balance" -> bal
          [] k = "positions" -> pos
          [] k = "trade_history" -> hist
          [] k = "initial_balance" -> initial])

\* the four assignments of from_dict
RestoredBalance(data) == Get(data, "balance", DefaultBalance)
RestoredPositions(data) == Get(data, "positions", EmptyDict)
RestoredHistory(data) == Get(data, "trade_history", <<>>)
RestoredInitialBalance(data) == Get(data, "initial_balance", DefaultBalance)

\* the held snapshot after the account changed its positions and history in
\* place (item assignment, del, append): a live snapshot shows the change
Shared(snap, pos, hist) ==
    IF snap.live
    THEN [snap EXCEPT !.data = DictValue([k \in DOMAIN snap.data.fields |->
             CASE k = "positions" -> pos
               [] k = "trade_history" -> hist
               [] OTHER -> snap.data.fields[k]])]
    ELSE snap

\* the held snapshot after the account was bound to other objects
Unshared(snap) == [snap EXCEPT !.live = FALSE]

----------------------------------------------------------------------------
(* State after construction: DemoAccount(initial_balance).                 *)

Init ==
    /\ initial_balance \in InitialBalances
    /\ balance = initial_balance
    /\ positions = EmptyDict
    /\ trade_history = <<>>
    /\ call = [op |-> "__init__"]
    /\ result = ReturnedNone
    /\ snapshot = NoSnapshot
    /\ pc = "idle"
    /\ deep_analysis_pool = <<>>
    /\ ranked_stocks = <<>>
    /\ top_5_candidates = <<>>
    /\ final_top_5 = <<>>
    /\ progress = <<>>
    /\ analyses = <<>>

(* execute_order(ticker, side, quantity, price, order_type, tp, sl);       *)
(* timestamp is the clock reading the call takes first.                    *)
ExecuteOrder(ticker, side, quantity, price, order_type, tp, sl, timestamp) ==
    LET total_cost == TotalCost(quantity, price)
        rec == TradeRecord(timestamp, ticker, side, quantity, price, tp, sl,
                           order_type, total_cost)
        filled == /\ trade_history' = RecordHistory(trade_history, rec)
                  /\ result' = Returned(TRUE, "Filled")
        rejected(msg) == /\ result' = Returned(FALSE, msg)
                         /\ UNCHANGED <<balance, positions, trade_history>>
    IN
    /\ call' = OrderCall(ticker, side, quantity, price, order_type, tp, sl)
    /\ UNCHANGED initial_balance
    /\ IF BuySide(side) THEN
          IF InsufficientFunds(total_cost, balance) THEN
              rejected("InsufficientFunds")
          ELSE
              /\ balance' = Debit(balance, total_cost)
              /\ IF ticker \in DOMAIN positions THEN
                    IF AvgDivisor(positions[ticker].quantity, quantity) = 0 THEN
                        \* the division raises after the cash was debited
                        /\ result' = Raised("ZeroDivisionError")
                        /\ UNCHANGED <<positions, trade_history>>
                    ELSE
                        /\ positions' = SetKey(positions, ticker,
                               AddToPosition(positions[ticker], quantity, total_cost, tp, sl))
                        /\ filled
                 ELSE
                    /\ positions' = SetKey(positions, ticker,
                                           NewPosition(quantity, price, tp, sl))
                    /\ filled
       ELSE IF SellSide(side) THEN
          IF ticker \notin DOMAIN positions THEN
              rejected("NoPosition")
          ELSE IF InsufficientPosition(positions[ticker].quantity, quantity) THEN
              rejected("InsufficientPosition")
          ELSE
              /\ balance' = Credit(balance, total_cost)
              /\ positions' = ReducePosition(positions, ticker, quantity)
              /\ filled
       ELSE
          rejected("InvalidSide")
    /\ snapshot' = Shared(snapshot, positions', trade_history')
    /\ UNCHANGED selection

(* reset(new_balance)                                                      *)
Reset(new_balance) ==
    /\ call' = [op |-> "reset", new_balance |-> new_balance]
    /\ initial_balance' = IF Provided(new_balance) THEN new_balance[1] ELSE initial_balance
    /\ balance' = initial_balance'
    /\ positions' = EmptyDict
    /\ trade_history' = <<>>
    /\ result' = ReturnedNone
    /\ snapshot' = Unshared(snapshot)
    /\ UNCHANGED selection

(* to_dict()                                                               *)
ToDict ==
    /\ call' = [op |-> "to_dict"]
    /\ snapshot' = [data |-> ToDictValue(balance, positions, trade_history,
                                         initial_balance),
                    live |-> TRUE]
    /\ result' = [kind |-> "dict", ok |-> FALSE, msg |-> ""]
    /\ UNCHANGED <<ledger, selection>>

(* from_dict(data), on this account or, with fresh, on a DemoAccount() just *)
(* constructed, which is the account from then on; held says that data is   *)
(* the held snapshot.                                                       *)
FromDict(data, held, fresh) ==
    /\ call' = [op |-> "from_dict", data |-> data, held |-> held, fresh |-> fresh]
    /\ IF HasGet(data) THEN
          /\ balance' = RestoredBalance(data)
          /\ positions' = RestoredPositions(data)
          /\ trade_history' = RestoredHistory(data)
          /\ initial_balance' = RestoredInitialBalance(data)
          /\ result' = ReturnedNone
          /\ snapshot' = [snapshot EXCEPT !.live = held]
       ELSE
          \* data.get raises before anything is assigned
          /\ result' = Raised("AttributeError")
          /\ IF fresh
             THEN /\ balance' = DefaultBalance
                  /\ initial_balance' = DefaultBalance
                  /\ positions' = EmptyDict
                  /\ trade_history' = <<>>
                  /\ snapshot' = Unshared(snapshot)
             ELSE UNCHANGED <<ledger, snapshot>>
    /\ UNCHANGED selection

----------------------------------------------------------------------------
(* The sentiment oracle: GeminiClient.analyze_sentiment.                   *)
(*                                                                         *)
(* A client is [api_key_valid, flash_model, pro_model], a model being None *)
(* or the name of the model object.  What the service does with one        *)
(* prompt to one model is [fails, content]: the number of generate_content *)
(* calls that raise before one returns, and the JSON text of the response  *)
(* that returns.  A JSON number or null is Some(n) or None.                *)

InvalidJson == [type |-> "invalid"]
MaxRetries == 3

\* mutant: the retries go on after a response came
Attempts_AllRetries(outcome) == MaxRetries

\* _generate_with_retry: the attempts made, and whether a response came
Attempts(outcome) ==
    IF outcome.fails < MaxRetries THEN outcome.fails + 1 ELSE MaxRetries
Responded(outcome) == outcome.fails < MaxRetries

\* json.loads(response.text) raises on text that is no JSON
Parses(content) == content.type # "invalid"

\* mutant: the degraded result carries score 0
Neutral_Zero(reason) ==
    DictValue([k \in {"score", "reason", "sentiment"} |->
        CASE k = "score" -> Some(0) [] k = "reason" -> reason
          [] k = "sentiment" -> "NEUTRAL"])

\* {"score": 50, "reason": ..., "sentiment": "NEUTRAL"}
Neutral(reason) ==
    DictValue([k \in {"score", "reason", "sentiment"} |->
        CASE k = "score" -> Some(50) [] k = "reason" -> reason
          [] k = "sentiment" -> "NEUTRAL"])

\* the model the call uses
ActiveModel(client, model_type) ==
    LET selected == IF model_type = "pro" THEN client.pro_model
                    ELSE client.flash_model
        fallback == IF model_type = "pro" /\ client.pro_model = None
                    THEN client.flash_model ELSE selected
    IN IF fallback = None
       THEN (IF client.flash_model # None THEN client.flash_model
             ELSE client.pro_model)
       ELSE fallback

\* the prompt is the forced-inference one
ForcedInference(text_len) == text_len < 5

\* analyze_sentiment: [value, attempts, models], the value returned, the
\* generate_content calls made and the models they were made to
\* the prompt analyze_sentiment builds for the text and the tier
Prompt(text_len, model_type) ==
    IF ForcedInference(text_len) THEN "forced"
    ELSE IF model_type = "pro" THEN "deep" ELSE "standard"

RECURSIVE AnalyzeSentiment(_, _, _, _)
AnalyzeSentiment(client, text_len, model_type, service) ==
    LET active_model == ActiveModel(client, model_type) IN
    IF ~client.api_key_valid THEN
        [value |-> Neutral("ERROR: API Key not set"), attempts |-> 0, models |-> <<>>,
         text_len |-> text_len, prompts |-> <<>>]
    ELSE IF active_model = None THEN
        [value |-> Neutral("AI Models not initialized"), attempts |-> 0, models |-> <<>>,
         text_len |-> text_len, prompts |-> <<>>]
    ELSE
        LET outcome == service[active_model[1]] IN
        IF Responded(outcome) /\ Parses(outcome.content) THEN
            [value |-> outcome.content, attempts |-> Attempts(outcome),
             models |-> <<active_model[1]>>, text_len |-> text_len,
             prompts |-> <<Prompt(text_len, model_type)>>]
        ELSE IF /\ model_type = "pro"
                /\ active_model # client.flash_model
                /\ client.flash_model # None THEN
            LET again == AnalyzeSentiment(client, text_len, "flash", service) IN
            [again EXCEPT !.attempts = @ + Attempts(outcome),
                          !.models = <<active_model[1]>> \o @,
                          !.prompts = <<Prompt(text_len, model_type)>> \o @]
        ELSE
            [value |-> Neutral("Analysis Failed"), attempts |-> Attempts(outcome),
             models |-> <<active_model[1]>>, text_len |-> text_len,
             prompts |-> <<Prompt(text_len, model_type)>>]

(* analyze_sentiment(text, ..., model_type) called on a client            *)
RequestSentiment(client, text_len, model_type, service) ==
    /\ call' = [op |-> "analyze_sentiment", client |-> client,
                text_len |-> text_len, model_type |-> model_type,
                service |-> service]
    /\ result' = [kind |-> "sentiment",
                  analysis |-> AnalyzeSentiment(client, text_len, model_type, service)]
    /\ UNCHANGED <<ledger, snapshot, selection>>

----------------------------------------------------------------------------
(* The analyzer: analyze_single_stock.                                     *)
(*                                                                         *)
(* Scores are kept in tenths, so that 0.60 * s + 0.40 * t is the whole     *)
(* number 6 * s + 4 * t; prices are whole multiples of 100, so that a      *)
(* price times a multiplier in hundredths is whole.                        *)

Min(a, b) == IF a < b THEN a ELSE b
Max(a, b) == IF a > b THEN a ELSE b

\* t_score
TechnicalScore(is_surging, rsi_val, macd_val) ==
    LET surge == IF is_surging THEN 15 ELSE 0
        rsi == IF rsi_val < 30 THEN 20 ELSE IF rsi_val > 70 THEN -10 ELSE 0
        macd == IF macd_val > 60 THEN 20 ELSE 0
    IN Max(0, Min(100, 50 + surge + rsi + macd))

\* mutants: the weights are exchanged
TotalScore_WeightsExchanged(s_score, t_score, is_warning_mode) ==
    4 * s_score + 6 * t_score - (IF is_warning_mode THEN 200 ELSE 0)

\* total_score, in tenths
TotalScore(s_score, t_score, is_warning_mode) ==
    6 * s_score + 4 * t_score - (IF is_warning_mode THEN 200 ELSE 0)

\* mutant: warning mode sells below 50
Action_WarningBelow50(total_score, is_warning_mode) ==
    IF is_warning_mode THEN (IF total_score < 500 THEN "Risk-off Sell" ELSE "Caution")
    ELSE IF total_score >= 800 THEN "Strong Buy"
    ELSE IF total_score >= 650 THEN "Accumulate"
    ELSE IF total_score >= 500 THEN "Hold"
    ELSE "Sell"

\* action
Action(total_score, is_warning_mode) ==
    IF is_warning_mode THEN (IF total_score < 400 THEN "Risk-off Sell" ELSE "Caution")
    ELSE IF total_score >= 800 THEN "Strong Buy"
    ELSE IF total_score >= 650 THEN "Accumulate"
    ELSE IF total_score >= 500 THEN "Hold"
    ELSE "Sell"

\* mutant: the bands are applied in warning mode too
UpsideMult_BandsInWarning(total_score, is_warning_mode) ==
    IF total_score >= 800 THEN 115
    ELSE IF total_score >= 650 THEN 108
    ELSE IF total_score >= 500 THEN 102
    ELSE 90

\* upside_mult and downside_mult, in hundredths
UpsideMult(total_score, is_warning_mode) ==
    IF is_warning_mode THEN 105
    ELSE IF total_score >= 800 THEN 115
    ELSE IF total_score >= 650 THEN 108
    ELSE IF total_score >= 500 THEN 102
    ELSE 90
DownsideMult(total_score, is_warning_mode) ==
    IF is_warning_mode THEN 97
    ELSE IF total_score >= 500 THEN 95
    ELSE 102

\* rec_order_type
RecOrderType(total_score, is_warning_mode) ==
    IF ~is_warning_mode /\ total_score < 800 /\ total_score >= 650
    THEN "LIMIT" ELSE "MARKET"

\* mutant: the limit entry is the price itself
RecEntryPrice_AtPrice(total_score, is_warning_mode, current_price) ==
    current_price

\* rec_entry_price
RecEntryPrice(total_score, is_warning_mode, current_price) ==
    IF ~is_warning_mode /\ total_score < 800 /\ total_score >= 650
    THEN (current_price * 98) \div 100 ELSE current_price

\* current_price * mult
PriceTimes(current_price, mult) == (current_price * mult) \div 100

\* the arguments and what the environment gives the call
AnalyzeCall(ticker, candidate_data, market_status, model_type, client, news, service, current_price) ==
    [op |-> "analyze_single_stock", ticker |-> ticker,
     candidate_data |-> candidate_data, market_status |-> market_status,
     model_type |-> model_type, client |-> client, news |-> news,
     service |-> service, current_price |-> current_price]

\* the dict analyze_single_stock returns; analysis and oracle are what
\* analyze_sentiment returned and did
AnalysisResult(ticker, model_type, analysis, is_surging, rsi_val, macd_val, is_warning_mode, news, current_price) ==
    LET s_score == Get(analysis.value, "score", Some(50))[1]
        t_score == TechnicalScore(is_surging, rsi_val, macd_val)
        total_score == TotalScore(s_score, t_score, is_warning_mode)
    IN [kind |-> "analysis", ticker |-> ticker, score |-> total_score,
        sentiment_score |-> s_score, technical_score |-> t_score,
        current_price |-> current_price,
        action |-> Action(total_score, is_warning_mode),
        target_price |->
            PriceTimes(current_price, UpsideMult(total_score, is_warning_mode)),
        stop_loss_price |->
            PriceTimes(current_price, DownsideMult(total_score, is_warning_mode)),
        rec_order_type |-> RecOrderType(total_score, is_warning_mode),
        rec_entry_price |->
            RecEntryPrice(total_score, is_warning_mode, current_price),
        ai_reason |-> Get(analysis.value, "reason", "default"),
        news_source |-> IF news > 0 THEN "publisher" ELSE "Macro AI Inference",
        is_surging |-> is_surging, model_type |-> model_type,
        analysis |-> analysis.value, attempts |-> analysis.attempts,
        models |-> analysis.models, oracle_text |-> analysis.text_len,
        prompts |-> analysis.prompts]

\* mutant: without news, too, the combined text is sent
OracleText_Combined(news) == 13 + news

\* the length of the text passed to analyze_sentiment: with news,
\* combined_text = "News {titles} Events {event_context}"; without, ""
OracleText(news) == IF news > 0 THEN 13 + news ELSE 0

\* analyze_single_stock, as far as its return value or exception
AnalyzeOutcome(ticker, candidate_data, market_status, model_type, client, news, service, current_price, surging, rsi, macd) ==
    LET given == candidate_data # None
        is_surging == IF given THEN candidate_data[1].is_surging ELSE surging
        rsi_val == IF given THEN candidate_data[1].rsi ELSE rsi
        macd_val == IF given THEN candidate_data[1].macd ELSE macd
        text_len == OracleText(news)
        analysis == AnalyzeSentiment(client, text_len, model_type, service)
    IN IF ~HasGet(analysis.value) THEN Raised("AttributeError")
       ELSE IF Get(analysis.value, "score", Some(50)) = None THEN Raised("TypeError")
       ELSE AnalysisResult(ticker, model_type, analysis, is_surging, rsi_val,
                           macd_val, market_status = "WARNING", news,
                           current_price)

(* analyze_single_stock(ticker, candidate_data, ..., market_status, ...,    *)
(* model_type) with the module's client; news is the number of items       *)
(* get_company_news finds, service what the oracle does, current_price the *)
(* simulated price, and surging, rsi, macd what the technical mocks give   *)
(* when there is no candidate_data.                                        *)
AnalyzeSingleStock(ticker, candidate_data, market_status, model_type, client, news, service, current_price, surging, rsi, macd) ==
    /\ call' = AnalyzeCall(ticker, candidate_data, market_status, model_type,
                           client, news, service, current_price)
    /\ result' = AnalyzeOutcome(ticker, candidate_data, market_status,
                                model_type, client, news, service,
                                current_price, surging, rsi, macd)
    /\ UNCHANGED <<ledger, snapshot, selection>>

----------------------------------------------------------------------------
(* Position sizing: calculate_position_size.  The risk fraction is given   *)
(* in whole percent, so that balance * risk_pct is (balance * percent) /   *)
(* 100 and the floor division by the price is a division of integers.      *)

\* int(target_amount // price)
FloorQuantity(bal, price, percent) == (bal * percent) \div (100 * price)

\* mutant: no minimum of one unit
PositionQuantity_NoMinimum(bal, price, percent) ==
    FloorQuantity(bal, price, percent)

\* qty, for a positive price
PositionQuantity(bal, price, percent) ==
    LET qty == FloorQuantity(bal, price, percent)
    IN IF qty = 0 /\ bal * percent > 0 THEN 1 ELSE qty

\* the dict returned
PositionSize(bal, price, percent) ==
    IF price <= 0 THEN [kind |-> "sizing", qty |-> 0, amount |-> 0]
    ELSE [kind |-> "sizing", qty |-> PositionQuantity(bal, price, percent),
          amount |-> PositionQuantity(bal, price, percent) * price]

(* calculate_position_size(balance, price, risk_pct)                       *)
CalculatePositionSize(bal, price, percent) ==
    /\ call' = [op |-> "calculate_position_size", balance |-> bal,
                price |-> price, percent |-> percent]
    /\ result' = PositionSize(bal, price, percent)
    /\ UNCHANGED <<ledger, snapshot, selection>>

\* risk_pct=0.10 of the buy buttons, in percent
AppRiskPercent == 10

(* the buy button of a diagnosed stock: the recommended quantity for the   *)
(* account's balance is bought at the price it was sized for               *)
BuyRecommended(ticker, price, timestamp) ==
    ExecuteOrder(ticker, "BUY", PositionSize(balance, price, AppRiskPercent).qty,
                 price, "MARKET", None, None, timestamp)

----------------------------------------------------------------------------
(* The compound-growth projector: calculate_compound_interest.  Amounts    *)
(* are exact fractions; a rounded amount is a whole number of hundredths.  *)

FracTimes(a, b) == Frac(a.num * b.num, a.den * b.den)

\* round(x, 2), in hundredths: to the nearest, a tie to the even hundredth
Round2(f) ==
    LET whole == f.num \div f.den
        part == (f.num - whole * f.den) * 100
        q == part \div f.den
        r == part - q * f.den
        up == \/ 2 * r > f.den
              \/ 2 * r = f.den /\ q % 2 = 1
    IN whole * 100 + q + (IF up THEN 1 ELSE 0)

\* monthly_rate = rate_of_return / 12
MonthlyRate(rate_of_return) == FracDivInt(rate_of_return, 12)

\* mutant: the contribution is added after the growth
CompoundStep_GrowthFirst(current_amount, monthly_contribution, monthly_rate) ==
    FracAdd(FracTimes(current_amount, FracAdd(FromInt(1), monthly_rate)), FromInt(monthly_contribution))

\* current_amount = (current_amount + monthly_contribution) * (1 + monthly_rate)
CompoundStep(current_amount, monthly_contribution, monthly_rate) ==
    FracTimes(FracAdd(current_amount, FromInt(monthly_contribution)), FracAdd(FromInt(1), monthly_rate))

\* mutant: the contributions are not added to the principal
Invested_Unchanged(total_invested, monthly_contribution) == total_invested

\* total_invested += monthly_contribution
Invested(total_invested, monthly_contribution) == total_invested + monthly_contribution

\* the row appended after a 12th month
YearRow(month, current_amount, total_invested) ==
    [year |-> month \div 12,
     total_assets |-> Round2(current_amount),
     total_contributed_principal |-> Round2(FromInt(total_invested)),
     gain |-> Round2(FracSub(current_amount, FromInt(total_invested)))]

\* the loop over month in range(1, years * 12 + 1), from `month' on
RECURSIVE ProjectMonths(_, _, _, _, _, _, _)
ProjectMonths(month, last, current_amount, total_invested, monthly_contribution, monthly_rate, data) ==
    IF month > last THEN data
    ELSE LET amount == CompoundStep(current_amount, monthly_contribution, monthly_rate)
             invested == Invested(total_invested, monthly_contribution)
             rows == IF month % 12 = 0
                     THEN Append(data, YearRow(month, amount, invested))
                     ELSE data
         IN \* the month's amount is evaluated here, before the next month
            IF amount.den > 0
            THEN ProjectMonths(month + 1, last, amount, invested, monthly_contribution, monthly_rate, rows)
            ELSE data

(* calculate_compound_interest(principal, monthly_contribution,            *)
(*                             rate_of_return, years)                      *)
CalculateCompoundInterest(principal, monthly_contribution, rate_of_return, years) ==
    /\ call' = [op |-> "calculate_compound_interest", principal |-> principal,
                monthly_contribution |-> monthly_contribution,
                rate_of_return |-> rate_of_return, years |-> years]
    /\ result' = [kind |-> "projection",
                  rows |-> ProjectMonths(1, years * 12, FromInt(principal), principal,
                                         monthly_contribution, MonthlyRate(rate_of_return), << >>)]
    /\ UNCHANGED <<ledger, snapshot, selection>>

----------------------------------------------------------------------------
\* mutant: the quote is ignored
QuotedPrice_AlwaysAverage(current_prices, ticker, pos) == pos.avg_price

\* current_prices.get(ticker, pos['avg_price'])
QuotedPrice(current_prices, ticker, pos) ==
    IF ticker \in DOMAIN current_prices
    THEN FromInt(current_prices[ticker]) ELSE pos.avg_price

\* position_value: the sum of price * quantity over the positions in held
RECURSIVE PositionValue(_, _, _)
PositionValue(pos, current_prices, held) ==
    IF held = {} THEN FromInt(0)
    ELSE LET t == CHOOSE x \in held : TRUE
         IN FracAdd(Times(QuotedPrice(current_prices, t, pos[t]), pos[t].quantity),
                    PositionValue(pos, current_prices, held \ {t}))

(* get_portfolio_value(current_prices)                                     *)
GetPortfolioValue(current_prices) ==
    /\ call' = [op |-> "get_portfolio_value", current_prices |-> current_prices]
    /\ result' = [kind |-> "value", ok |-> FALSE, msg |-> "",
                  value |-> FracAdd(FromInt(balance),
                                    PositionValue(positions, current_prices,
                                                  DOMAIN positions))]
    /\ UNCHANGED <<ledger, snapshot, selection>>

(* load(filename); file is what the file holds: nothing (it is missing),  *)
(* text that is no JSON, or a JSON value.  The exceptions of json.load and *)
(* of from_dict are caught and printed.                                    *)
MissingFile == [type |-> "missing"]
Load(file) ==
    /\ call' = [op |-> "load", file |-> file]
    /\ result' = ReturnedNone
    /\ IF file # MissingFile /\ Parses(file) /\ HasGet(file) THEN
          /\ balance' = RestoredBalance(file)
          /\ positions' = RestoredPositions(file)
          /\ trade_history' = RestoredHistory(file)
          /\ initial_balance' = RestoredInitialBalance(file)
          /\ snapshot' = Unshared(snapshot)
       ELSE UNCHANGED <<ledger, snapshot>>
    /\ UNCHANGED selection

\* the part of the state space explored
Explored(maxhist) == Len(trade_history') <= maxhist /\ balance' <= MaxCash

\* an order with arguments from the given sets
Order(T, Q, P, maxhist) ==
    \E ticker \in T, side \in Sides, quantity \in Q, price \in P,
       order_type \in OrderTypes, tp \in TakeProfits, sl \in StopLosses,
       timestamp \in Timestamps :
        /\ ExecuteOrder(ticker, side, quantity, price, order_type, tp, sl, timestamp)
        /\ Explored(maxhist)

AnyOrder == Order(OneTicker, Quantities, Prices, MaxHist)
ValidOrder == Order(Tickers, ValidQuantities, ValidPrices, MaxHistValid)
AnyReset == \E new_balance \in ResetBalances : Reset(new_balance)

\* the held snapshot is restored, into this account or a fresh one
RestoreHeld ==
    /\ snapshot # NoSnapshot
    /\ \E fresh \in BOOLEAN : FromDict(snapshot.data, TRUE, fresh)

\* what a snapshot file may hold instead: a dict with no key or one key
\* missing, or no dict
SampleField(k) ==
    CASE k = "balance" -> 1
      [] k = "positions" -> SetKey(EmptyDict, "A", NewPosition(1, 2, None, None))
      [] k = "trade_history" ->
             <<TradeRecord(1, "A", "BUY", 1, 2, None, None, "MARKET", 2)>>
      [] k = "initial_balance" -> 3
PartialSnapshots ==
    {DictValue([k \in keys |-> SampleField(k)]) :
        keys \in {{}} \cup {SnapshotKeys \ {k} : k \in SnapshotKeys}}
    \cup {NullValue, ListValue}
RestorePartial ==
    \E data \in PartialSnapshots, fresh \in BOOLEAN : FromDict(data, FALSE, fresh)

\* orders for one ticker with any numeric arguments, and resets
Next == AnyOrder \/ AnyReset
Spec == Init /\ [][Next]_vars

\* orders for two tickers with positive quantity and positive price only
NextValid == ValidOrder
SpecValid == Init /\ [][NextValid]_vars

\* valid orders and resets
LedgerOrder == Order(Tickers, ValidQuantities, ValidPrices, MaxHistSnap)
NextLedger == LedgerOrder \/ AnyReset
SpecLedger == Init /\ [][NextLedger]_vars

\* valid orders, snapshots and restores of the held snapshot
SnapOrder == Order(Tickers, ValidQuantities, ValidPrices, MaxHistSnap)
NextSnap == SnapOrder \/ ToDict \/ RestoreHeld
SpecSnap == Init /\ [][NextSnap]_vars

\* valid orders for one ticker at one price, snapshots, and restores of any
\* snapshot value
OnePrice == {1}
RestoreOrder == Order(OneTicker, ValidQuantities, OnePrice, MaxHistSnap)
NextRestore == RestoreOrder \/ ToDict \/ RestoreHeld \/ RestorePartial
SpecRestore == Init /\ [][NextRestore]_vars

\* purchases of the recommended quantity, at prices below and above the cash
SizedPrices == {1, 2, 3, 5}
AnyBuyRecommended ==
    \E ticker \in Tickers, price \in SizedPrices, timestamp \in Timestamps :
        BuyRecommended(ticker, price, timestamp) /\ Explored(MaxHistSnap)
NextSized == AnyBuyRecommended
SpecSized == Init /\ [][NextSized]_vars

\* position sizing for any balance, price and risk percentage
SizingBalances == {-100, 0, 5, 100, 29999, 1000000}
SizingPrices == {-1, 0, 3, 2000, 10000}
RiskPercents == {0, 5, 10, 100}
AnySizing ==
    \E bal \in SizingBalances, price \in SizingPrices, percent \in RiskPercents :
        CalculatePositionSize(bal, price, percent)
NextSizing == AnySizing
SpecSizing == Init /\ [][NextSizing]_vars

\* projections: several years without growth, one year with growth (the
\* annual rates 6 and 12 make the monthly factors 3/2 and 2)
MaxYears == 3         \* longest horizon explored
Principals == {0, 1, 3, 100}
Contributions == {0, 1, 2, 30}
GrowthRates == {FromInt(6), FromInt(12)}
Horizons(rate_of_return) == IF rate_of_return = FromInt(0) THEN 0..MaxYears ELSE {0, 1}
AnyProjection ==
    \E principal \in Principals, monthly_contribution \in Contributions :
        \E rate_of_return \in {FromInt(0)} \cup GrowthRates :
            \E years \in Horizons(rate_of_return) :
                CalculateCompoundInterest(principal, monthly_contribution, rate_of_return, years)
NextProjection == AnyProjection
SpecProjection == Init /\ [][NextProjection]_vars

\* valid orders for two tickers, and valuations with any price map
Quotes == {1, 3}
PriceMaps == UNION {[held -> Quotes] : held \in SUBSET Tickers}
AnyValuation == \E current_prices \in PriceMaps : GetPortfolioValue(current_prices)
NextValue == SnapOrder \/ AnyValuation
SpecValue == Init /\ [][NextValue]_vars

\* valid orders for one ticker at one price, and loads of any file
Files == {MissingFile, InvalidJson} \cup PartialSnapshots
AnyLoad == \E file \in Files : Load(file)
NextLoad == RestoreOrder \/ AnyLoad
SpecLoad == Init /\ [][NextLoad]_vars

\* buys and sales of one ticker, one unit at one price, with any take-profit
\* and stop-loss
TargetPrices == {None, Some(0), Some(3), Some(5)}
TargetOrder ==
    \E side \in {"BUY", "SELL"}, tp \in TargetPrices, sl \in TargetPrices :
        /\ ExecuteOrder("A", side, 1, 1, "MARKET", tp, sl, 1)
        /\ Explored(MaxHistSnap)
NextTargets == TargetOrder
SpecTargets == Init /\ [][NextTargets]_vars

\* buys and sales of two tickers at one price, with or without take-profit
\* and stop-loss
MaxHistFrame == 3     \* longest trade history explored, two tickers with targets
TargetPairs == {<<None, None>>, <<Some(3), Some(5)>>}
FrameOrder ==
    \E ticker \in Tickers, side \in {"BUY", "SELL"}, quantity \in ValidQuantities,
       targets \in TargetPairs :
        /\ ExecuteOrder(ticker, side, quantity, 1, "MARKET", targets[1], targets[2], 1)
        /\ Explored(MaxHistFrame)
NextFrame == FrameOrder
SpecFrame == Init /\ [][NextFrame]_vars

\* the inputs of the analyzer
MarketStatuses == {"NORMAL", "WARNING"}
ModelTypes == {"flash", "pro"}
ModelNames == {"flash", "pro"}
StockPrices == {100, 3000}
RsiValues == {70, 71}
MacdValues == {60, 61}
NewsCounts == {0, 1}
SentimentScores == {0, 35, 49, 50, 59, 60, 74, 75, 99, 100}

\* a candidate of pre_screen_stocks
Candidate(ticker, pre_score, rsi, macd, is_surging) ==
    [ticker |-> ticker, pre_score |-> pre_score, rsi |-> rsi, macd |-> macd,
     is_surging |-> is_surging]

\* the clients the constructor can leave: no key; key and both models;
\* configuration failed after the flash model was picked
Offline == [api_key_valid |-> FALSE, flash_model |-> None, pro_model |-> None]
Online == [api_key_valid |-> TRUE, flash_model |-> Some("flash"),
           pro_model |-> Some("pro")]
HalfConfigured == [api_key_valid |-> FALSE, flash_model |-> Some("flash"),
                   pro_model |-> None]
Clients == {Offline, Online, HalfConfigured}

\* responses of the oracle
ScoreDict(score) ==
    DictValue([k \in {"score", "reason", "sentiment"} |->
        CASE k = "score" -> score [] k = "reason" -> "because"
          [] k = "sentiment" -> "BULLISH"])
NoScoreDict == DictValue([k \in {"reason"} |-> "because"])
Answers(content) == [m \in ModelNames |-> [fails |-> 0, content |-> content]]

\* the technical readings explored, as candidates of the pre-screening, and
\* the oracle answering at once with a whole score
Candidates ==
    {Candidate("A", 0, rsi, macd, surging) :
        rsi \in RsiValues, macd \in MacdValues, surging \in BOOLEAN}
ScoredAnswers == {Answers(ScoreDict(Some(s))) : s \in SentimentScores}

\* a flash analysis that the oracle answers at once with a whole score;
\* score, market status, price and technical inputs vary; the readings
\* come with the candidate when it is given and from the mocks otherwise
AnalyzeScored ==
    \E service \in ScoredAnswers, market_status \in MarketStatuses,
       current_price \in StockPrices, candidate \in Candidates,
       given \in BOOLEAN :
        AnalyzeSingleStock("A", IF given THEN Some(candidate) ELSE None,
            market_status, "flash", Online, 1, service, current_price,
            candidate.is_surging, candidate.rsi, candidate.macd)
NextAnalyze == AnalyzeScored
SpecAnalyze == Init /\ [][NextAnalyze]_vars

\* what the oracle may do with the prompt to one model
ServiceOutcomes ==
    {[fails |-> f, content |-> ScoreDict(Some(70))] : f \in {0, 2, 3}}
    \cup {[fails |-> 0, content |-> c] :
            c \in {InvalidJson, ListValue, ScoreDict(None), NoScoreDict}}

\* sentiment requests of either tier to any client, one with a single model
\* included, with and without text
FlashOnly == [api_key_valid |-> TRUE, flash_model |-> Some("flash"), pro_model |-> None]
ProOnly == [api_key_valid |-> TRUE, flash_model |-> None, pro_model |-> Some("pro")]
AnySentiment ==
    \E client \in Clients \cup {FlashOnly, ProOnly},
       service \in [ModelNames -> ServiceOutcomes],
       model_type \in ModelTypes, text_len \in {0, 14} :
        RequestSentiment(client, text_len, model_type, service)
NextSentiment == AnySentiment
SpecSentiment == Init /\ [][NextSentiment]_vars

\* any client and any behaviour of the oracle; the technical inputs are fixed
AnalyzeOracle ==
    \E client \in Clients, service \in [ModelNames -> ServiceOutcomes],
       model_type \in ModelTypes, news \in NewsCounts :
        AnalyzeSingleStock("A", None, "NORMAL", model_type, client, news,
                           service, 100, FALSE, 50, 50)
NextOracle == AnalyzeOracle
SpecOracle == Init /\ [][NextOracle]_vars

----------------------------------------------------------------------------
(* The two-stage selector: get_best_stocks, run by the scan handler of     *)
(* app.py with the progress bar's progress method as progress_callback.    *)
(* One step is the handler up to the first loop, one iteration of a loop,  *)
(* or the code between and after the loops.  An exception leaves           *)
(* get_best_stocks and the handler.                                        *)

MaxStocks == 6        \* length of the stock list explored
StockNames == <<"A", "B", "C", "D", "E", "F", "G">>
GLOBAL_REQ_STOCKS == SubSeq(StockNames, 1, MaxStocks)

PoolSize == 5         \* all_candidates[:5]
TopSize == 5          \* ranked_stocks[:5]

\* mutant: the slice keeps the whole list
Take_Whole(seq, n) == seq

\* seq[:n]
Take(seq, n) == SubSeq(seq, 1, Min(n, Len(seq)))

\* list.sort(key=lambda x: x[key], reverse=True): stable, largest first
RECURSIVE SortDesc(_, _)
SortDesc(seq, key) ==
    IF seq = <<>> THEN <<>>
    ELSE LET x == Head(seq)
             rest == SortDesc(Tail(seq), key)
             p == Cardinality({i \in DOMAIN rest : rest[i][key] > x[key]})
         IN SubSeq(rest, 1, p) \o <<x>> \o SubSeq(rest, p + 1, Len(rest))

\* mutant: the results are left in the order of analysis
RankByScore_Unsorted(results) == results

\* .sort(key=lambda x: x['score'], reverse=True)
RankByScore(results) == SortDesc(results, "score")

\* pre_score of one stock
PreScore(is_surging, rsi, macd, noise) ==
    (IF is_surging THEN 50 ELSE 0)
    + (IF rsi < 30 \/ rsi > 70 THEN 30 ELSE 0)
    + (IF macd > 60 THEN 20 ELSE 0)
    + noise

\* mutant: candidates of equal pre_score come out in reverse input order
PreScreenStocks_TiesReversed(pool, reading) ==
    SortDesc([i \in DOMAIN pool |->
                 LET t == pool[Len(pool) + 1 - i]
                     r == reading[t]
                 IN Candidate(t, PreScore(r.is_surging, r.rsi, r.macd, r.noise),
                              r.rsi, r.macd, r.is_surging)],
             "pre_score")

\* pre_screen_stocks(pool), reading[ticker] being what the technical mocks
\* and the noise give for the ticker
PreScreenStocks(pool, reading) ==
    SortDesc([i \in DOMAIN pool |->
                 LET r == reading[pool[i]]
                 IN Candidate(pool[i],
                              PreScore(r.is_surging, r.rsi, r.macd, r.noise),
                              r.rsi, r.macd, r.is_surging)],
             "pre_score")

\* a call of pre_screen_stocks(pool) alone
PreScreen(pool, reading) ==
    /\ call' = [op |-> "pre_screen_stocks", pool |-> pool, reading |-> reading]
    /\ result' = [kind |-> "candidates",
                  candidates |-> PreScreenStocks(pool, reading)]
    /\ UNCHANGED <<ledger, snapshot, selection>>

\* pct_base of the two loops: 30 + int((i / total) * 50), 80 + int((i / 5) * 20)
Stage1Progress(i, total_candidates) == 30 + (i * 50) \div total_candidates
Stage2Progress(i) == 80 + (i * 20) \div 5

\* the button is clicked: the handler reports 30 and 70 and calls
\* get_best_stocks, which screens the stock list and takes its pool
ScanClicked(reading) ==
    /\ pc \in {"idle", "done", "raised"}
    /\ progress' = <<30, 70>>
    /\ deep_analysis_pool' =
           Take(PreScreenStocks(GLOBAL_REQ_STOCKS, reading), PoolSize)
    /\ ranked_stocks' = <<>>
    /\ top_5_candidates' = <<>>
    /\ final_top_5' = <<>>
    /\ analyses' = <<>>
    /\ pc' = "stage1"
    /\ UNCHANGED account

\* one iteration of the stage-1 loop
Stage1Step(market_status, client, news, service, current_price) ==
    /\ pc = "stage1"
    /\ Len(ranked_stocks) < Len(deep_analysis_pool)
    /\ LET i == Len(ranked_stocks)
           candidate == deep_analysis_pool[i + 1]
           analyzed_data ==
               AnalyzeOutcome(candidate.ticker, Some(candidate), market_status,
                              "flash", client, news, service, current_price,
                              FALSE, 50, 50)
       IN /\ progress' = Append(progress,
                                Stage1Progress(i, Len(deep_analysis_pool)))
          /\ analyses' = Append(analyses, <<candidate.ticker, "flash">>)
          /\ IF analyzed_data.kind = "raise"
             THEN pc' = "raised" /\ UNCHANGED ranked_stocks
             ELSE /\ ranked_stocks' = Append(ranked_stocks, analyzed_data)
                  /\ UNCHANGED pc
    /\ UNCHANGED <<account, deep_analysis_pool, top_5_candidates, final_top_5>>

\* between the loops: sort by score, take the top 5
RankStage1 ==
    /\ pc = "stage1"
    /\ Len(ranked_stocks) = Len(deep_analysis_pool)
    /\ ranked_stocks' = RankByScore(ranked_stocks)
    /\ top_5_candidates' = Take(ranked_stocks', TopSize)
    /\ pc' = "stage2"
    /\ UNCHANGED <<account, deep_analysis_pool, final_top_5, progress, analyses>>

\* one iteration of the stage-2 loop
Stage2Step(market_status, client, news, service, current_price, surging, rsi, macd) ==
    /\ pc = "stage2"
    /\ Len(final_top_5) < Len(top_5_candidates)
    /\ LET i == Len(final_top_5)
           stock == top_5_candidates[i + 1]
           deep_data ==
               AnalyzeOutcome(stock.ticker, None, market_status, "pro", client,
                              news, service, current_price, surging, rsi, macd)
       IN /\ progress' = Append(progress, Stage2Progress(i))
          /\ analyses' = Append(analyses, <<stock.ticker, "pro">>)
          /\ IF deep_data.kind = "raise"
             THEN pc' = "raised" /\ UNCHANGED final_top_5
             ELSE /\ final_top_5' = Append(final_top_5, deep_data)
                  /\ UNCHANGED pc
    /\ UNCHANGED <<account, deep_analysis_pool, ranked_stocks, top_5_candidates>>

\* the user asks for the running selection to be cancelled: get_best_stocks
\* takes no flag and reads none, so the request reaches nothing in it
RequestCancel ==
    /\ pc \in {"stage1", "stage2"}
    /\ call' = [op |-> "cancel"]
    /\ UNCHANGED <<ledger, result, snapshot, selection>>

\* after the loops: get_best_stocks sorts and returns final_top_5, and the
\* handler reports 100
FinishScan ==
    /\ pc = "stage2"
    /\ Len(final_top_5) = Len(top_5_candidates)
    /\ final_top_5' = RankByScore(final_top_5)
    /\ progress' = Append(progress, 100)
    /\ pc' = "done"
    /\ UNCHANGED <<account, deep_analysis_pool, ranked_stocks, top_5_candidates,
                   analyses>>

\* the environment of the scans explored: at most one stock is surging, the
\* other readings are level; the market status is NORMAL, news is found and
\* the oracle answers at once, with a score or with JSON that is no dict
Level(is_surging) == [is_surging |-> is_surging, rsi |-> 50, macd |-> 50, noise |-> 0]
Readings ==
    {[t \in {GLOBAL_REQ_STOCKS[i] : i \in DOMAIN GLOBAL_REQ_STOCKS} |-> Level(t = hot)] :
        hot \in {GLOBAL_REQ_STOCKS[i] : i \in DOMAIN GLOBAL_REQ_STOCKS} \cup {"none"}}
ScanContents == {ScoreDict(Some(40)), ScoreDict(Some(90)), ListValue}

AnyScan == \E reading \in Readings : ScanClicked(reading)
ScanAnswers == {Answers(content) : content \in ScanContents}
AnyStage1Step ==
    \E service \in ScanAnswers :
        Stage1Step("NORMAL", Online, 1, service, 100)
AnyStage2Step ==
    \E service \in ScanAnswers :
        Stage2Step("NORMAL", Online, 1, service, 100, FALSE, 50, 50)
\* screenings of any pool of distinct tickers, the readings of a ticker
\* being quiet (0), surging (50), oversold with a strong MACD (50), or
\* surging and overbought with noise (70)
ScreenTickers == {"A", "B", "C"}
Pools ==
    UNION {{p \in [1..n -> ScreenTickers] : \A i, j \in 1..n : i # j => p[i] # p[j]} :
              n \in 0..Cardinality(ScreenTickers)}
ScreenReadings ==
    {Level(FALSE), Level(TRUE),
     [is_surging |-> FALSE, rsi |-> 29, macd |-> 61, noise |-> 0],
     [is_surging |-> TRUE, rsi |-> 71, macd |-> 60, noise |-> -10]}
AnyPreScreen ==
    \E pool \in Pools, reading \in [ScreenTickers -> ScreenReadings] :
        PreScreen(pool, reading)
NextScreen == AnyPreScreen
SpecScreen == Init /\ [][NextScreen]_vars

NextCancel ==
    AnyScan \/ AnyStage1Step \/ RankStage1 \/ AnyStage2Step \/ FinishScan \/ RequestCancel
SpecCancel == Init /\ [][NextCancel]_vars

NextSelect == AnyScan \/ AnyStage1Step \/ RankStage1 \/ AnyStage2Step \/ FinishScan
SpecSelect == Init /\ [][NextSelect]_vars

----------------------------------------------------------------------------
(* Vocabulary of the properties.                                           *)

IsOrder(c) == c.op = "execute_order"
IsBuy(c) == IsOrder(c) /\ c.side = "BUY"
IsSell(c) == IsOrder(c) /\ c.side = "SELL"
Succeeded(r) == r.kind = "pair" /\ r.ok
Failed(r) == r.kind = "pair" /\ ~r.ok
FailedWith(r, msg) == Failed(r) /\ r.msg = msg
Holds(t) == t \in DOMAIN positions
IsPrefix(s, t) == Len(s) <= Len(t) /\ SubSeq(t, 1, Len(s)) = s
Last(h) == h[Len(h)]

\* sum of quantity * price, and of quantity, over the first n records of h
\* that are orders of the given side for one of the given tickers
RECURSIVE SumNotional(_, _, _, _)
SumNotional(h, n, tickers, side) ==
    IF n = 0 THEN 0
    ELSE SumNotional(h, n - 1, tickers, side)
         + (IF h[n].ticker \in tickers /\ h[n].side = side
            THEN h[n].quantity * h[n].price ELSE 0)

RECURSIVE SumQuantity(_, _, _, _)
SumQuantity(h, n, tickers, side) ==
    IF n = 0 THEN 0
    ELSE SumQuantity(h, n - 1, tickers, side)
         + (IF h[n].ticker \in tickers /\ h[n].side = side
            THEN h[n].quantity ELSE 0)

\* The holding of ticker t and its cost basis after the first n records of h,
\* by the rule of the claim: a buy adds its notional to the basis, a sale
\* takes out sold quantity * average cost, the average cost at the time of
\* the sale being basis / quantity held then.
RECURSIVE CostBasis(_, _, _)
CostBasis(h, t, n) ==
    IF n = 0 THEN [qty |-> 0, basis |-> FromInt(0)]
    ELSE LET prev == CostBasis(h, t, n - 1)
             r == h[n]
         IN  IF r.ticker # t THEN prev
             ELSE IF r.side = "BUY" THEN
                 [qty |-> prev.qty + r.quantity,
                  basis |-> FracAdd(prev.basis, FromInt(r.quantity * r.price))]
             ELSE
                 [qty |-> prev.qty - r.quantity,
                  basis |-> FracSub(prev.basis,
                                    Times(FracDivInt(prev.basis, prev.qty), r.quantity))]

----------------------------------------------------------------------------
(* Properties.                                                             *)

C2_SellPositionCheck ==
    [][IsSell(call') =>
         IF ~Holds(call'.ticker)
         THEN FailedWith(result', "NoPosition") /\ UNCHANGED ledger
         ELSE IF call'.quantity > positions[call'.ticker].quantity
         THEN FailedWith(result', "InsufficientPosition") /\ UNCHANGED ledger
         ELSE Succeeded(result')]_vars

\* a SELL of more than the holding was refused
C2_Witness ==
    /\ IsSell(call) /\ FailedWith(result, "InsufficientPosition")
    /\ Holds(call.ticker) /\ positions[call.ticker].quantity > 0
    /\ call.quantity > positions[call.ticker].quantity

\* C3: a successful execute_order makes the history one record longer, a
\* failed one leaves its length as it was.
C3_OneRecordPerSuccess ==
    [][IsOrder(call') =>
         /\ Succeeded(result') => Len(trade_history') = Len(trade_history) + 1
         /\ Failed(result') => Len(trade_history') = Len(trade_history)]_vars

\* a second order succeeded and was recorded
C3_Witness ==
    IsOrder(call) /\ Succeeded(result) /\ Len(trade_history) = 2

\* C4: every position in the mapping has quantity > 0, whatever numeric
\* arguments the orders had.
C4_PositionsPositive ==
    \A t \in DOMAIN positions : positions[t].quantity > 0

\* C5: execute_order returns a (success, message) pair for all arguments in
\* every reachable state; it never raises.
C5_NeverRaises ==
    IsOrder(call) => result.kind = "pair"

\* C6: with a non-negative initial balance and orders of positive quantity
\* and price, the cash balance is never negative.
C6_Solvent == balance >= 0

\* all the cash was spent, and a sale was among the orders
C6_Witness ==
    /\ balance = 0 /\ initial_balance > 0
    /\ \E i \in 1..Len(trade_history) : trade_history[i].side = "SELL"

\* C7: each successful BUY lowers the cash by quantity * price, so after a
\* sequence of successful BUYs the cash is the cash before minus the sum of
\* quantity * price over them.
C7_AllBuys == \A i \in 1..Len(trade_history) : trade_history[i].side = "BUY"
C7_BuysDebitCash ==
    /\ [](C7_AllBuys =>
            balance = initial_balance
                      - SumNotional(trade_history, Len(trade_history), Tickers, "BUY"))
    /\ [][IsBuy(call') /\ Succeeded(result') =>
            balance' = balance - call'.quantity * call'.price]_vars

\* three BUYs in a row succeeded
C7_Witness ==
    /\ C7_AllBuys /\ Len(trade_history) = 3
    /\ IsBuy(call) /\ Succeeded(result)

\* C8: for a held ticker, average cost * held quantity is the notional of its
\* buys minus, for each sale, sold quantity * average cost at the time of the
\* sale; with no sale the average cost is sum(quantity * price) / sum(quantity);
\* the first BUY of an absent ticker sets the average cost to the order price.
C8_NoSale(t) ==
    \A i \in 1..Len(trade_history) :
        ~(trade_history[i].ticker = t /\ trade_history[i].side = "SELL")
C8_BasisOf(t) ==
    LET replay == CostBasis(trade_history, t, Len(trade_history))
    IN  /\ positions[t].quantity = replay.qty
        /\ Times(positions[t].avg_price, positions[t].quantity) = replay.basis
        /\ C8_NoSale(t) =>
             positions[t].avg_price =
                 Frac(SumNotional(trade_history, Len(trade_history), {t}, "BUY"),
                      SumQuantity(trade_history, Len(trade_history), {t}, "BUY"))
C8_WeightedAverageCost ==
    /\ [](\A t \in DOMAIN positions : C8_BasisOf(t))
    /\ [][IsBuy(call') /\ Succeeded(result') /\ ~Holds(call'.ticker) =>
            positions'[call'.ticker].avg_price = FromInt(call'.price)]_vars

\* a position bought at two prices and then partly sold: its average cost is
\* not a whole number
C8_Witness ==
    \E t \in DOMAIN positions :
        /\ positions[t].avg_price.den > 1
        /\ ~C8_NoSale(t)

\* C9: a successful SELL of exactly the held quantity removes the position,
\* and a SELL of that ticker right after it fails with NoPosition.
C9_FullSale ==
    /\ IsSell(call) /\ Succeeded(result) /\ ~Holds(call.ticker)
C9_FullSaleRemoves ==
    /\ [][(/\ IsSell(call') /\ Succeeded(result')
           /\ Holds(call'.ticker)
           /\ call'.quantity = positions[call'.ticker].quantity)
          => ~(call'.ticker \in DOMAIN positions')]_vars
    /\ [][(C9_FullSale /\ IsSell(call') /\ call'.ticker = call.ticker)
          => FailedWith(result', "NoPosition")]_vars

\* the SELL that follows a full sale was refused
C9_Witness ==
    /\ IsSell(call) /\ FailedWith(result, "NoPosition")
    /\ Len(trade_history) = 2
    /\ Last(trade_history).side = "SELL"
    /\ Last(trade_history).ticker = call.ticker
    /\ Last(trade_history).quantity = trade_history[1].quantity
    /\ Last(trade_history).quantity > 0

\* C10: under execute_order the history before the call is a prefix of the
\* history after it; only reset and restore replace the history.
C10_HistoryReplacers == {"reset", "from_dict", "load"}
C10_AppendOnly ==
    /\ [][IsOrder(call') => IsPrefix(trade_history, trade_history')]_vars
    /\ [][~IsPrefix(trade_history, trade_history')
          => call'.op \in C10_HistoryReplacers]_vars

\* an order was appended to a history that already had a record
C10_Witness ==
    /\ IsOrder(call) /\ Succeeded(result) /\ Len(trade_history) >= 2
    /\ Last(trade_history).ticker = call.ticker
    /\ trade_history[1] # Last(trade_history)

\* C11: a snapshot taken with to_dict and restored with from_dict, into the
\* same account or into one just constructed, gives back the cash balance,
\* initial balance, positions and history the account had; taking the
\* snapshot changes none of them.
C11_SnapshotRoundTrip ==
    /\ [][call'.op = "to_dict" => UNCHANGED ledger]_vars
    /\ [][(call.op = "to_dict" /\ call'.op = "from_dict" /\ call'.held)
          => (result'.kind # "raise" /\ ledger' = ledger)]_vars

\* a fresh account was restored from the snapshot of an account that had
\* bought both tickers
C11_Witness ==
    /\ call.op = "from_dict" /\ call.held /\ call.fresh
    /\ DOMAIN positions = Tickers
    /\ Len(trade_history) = 2
    /\ balance # initial_balance

\* C12: from_dict never raises on a malformed or partial snapshot; every
\* field present in the snapshot is taken from it and every missing field
\* takes its default (balance and initial balance 10,000,000, positions and
\* history empty), whatever the state was before.
C12_RestoreIsTotal ==
    [][call'.op = "from_dict" =>
         /\ result'.kind # "raise"
         /\ balance' = Get(call'.data, "balance", 10000000)
         /\ initial_balance' = Get(call'.data, "initial_balance", 10000000)
         /\ positions' = Get(call'.data, "positions", EmptyDict)
         /\ trade_history' = Get(call'.data, "trade_history", <<>>)]_vars

\* vocabulary of the analyzer's properties
IsAnalysis(c) == c.op = "analyze_single_stock"
Analyzed(c, r) == IsAnalysis(c) /\ r.kind = "analysis"
InWarning(c) == c.market_status = "WARNING"

\* C17: in warning mode the action depends only on the composite score after
\* dampening and the threshold 40: below 40 it is the risk-off sell, otherwise
\* hold/caution; the score bands are never applied (the order stays a market
\* order at the current price).  A score of 35 gives the risk-off sell and a
\* score of 55 hold/caution.
C17_WarningAction ==
    (Analyzed(call, result) /\ InWarning(call)) =>
        /\ result.action = IF result.score < 400 THEN "Risk-off Sell" ELSE "Caution"
        /\ result.score = 350 => result.action = "Risk-off Sell"
        /\ result.score = 550 => result.action = "Caution"
        /\ result.rec_order_type = "MARKET"
        /\ result.rec_entry_price = result.current_price

\* a warning-mode analysis with composite score 35
C17_Witness ==
    /\ Analyzed(call, result) /\ InWarning(call)
    /\ result.score = 350
    /\ result.action = "Risk-off Sell"

\* C18: the composite score returned is 0.60 * sentiment sub-score + 0.40 *
\* technical sub-score when the market status is not WARNING, and that value
\* minus exactly 20 when it is (scores in tenths).
C18_CompositeScore ==
    Analyzed(call, result) =>
        LET weighted == 6 * result.sentiment_score + 4 * result.technical_score
        IN /\ result.sentiment_score = Get(result.analysis, "score", Some(50))[1]
           /\ ~InWarning(call) => result.score = weighted
           /\ InWarning(call) => result.score = weighted - 200

\* a warning-mode analysis of sentiment 75 and technical score 60
C18_Witness ==
    /\ Analyzed(call, result) /\ InWarning(call)
    /\ result.sentiment_score = 75 /\ result.technical_score = 60
    /\ result.score = 490

\* C19: target_price = current_price * upside and stop_loss_price =
\* current_price * downside, where (upside, downside) is (1.05, 0.97) in
\* warning mode for every score, and otherwise (1.15, 0.95) from 80,
\* (1.08, 0.95) from 65, (1.02, 0.95) from 50 and (0.90, 1.02) below 50
\* (multipliers in hundredths).
C19_Multipliers(score, warning) ==
    IF warning THEN <<105, 97>>
    ELSE IF score >= 800 THEN <<115, 95>>
    ELSE IF score >= 650 THEN <<108, 95>>
    ELSE IF score >= 500 THEN <<102, 95>>
    ELSE <<90, 102>>
C19_Targets ==
    Analyzed(call, result) =>
        LET m == C19_Multipliers(result.score, InWarning(call))
        IN /\ 100 * result.target_price = result.current_price * m[1]
           /\ 100 * result.stop_loss_price = result.current_price * m[2]

\* a warning-mode analysis whose score lies in the accumulate band
C19_Witness ==
    /\ Analyzed(call, result) /\ InWarning(call)
    /\ result.score >= 650
    /\ 100 * result.target_price = 105 * result.current_price
    /\ 100 * result.stop_loss_price = 97 * result.current_price

\* C20: outside warning mode the composite score alone selects exactly one
\* band: from 80 strong buy, market order, entry at the current price; from
\* 65 accumulate, limit order, entry at 0.98 * current price; from 50 hold;
\* below 50 sell; hold and sell keep the market order at the current price.
C20_Band(score) ==
    IF score >= 800 THEN "Strong Buy"
    ELSE IF score >= 650 THEN "Accumulate"
    ELSE IF score >= 500 THEN "Hold"
    ELSE "Sell"
C20_ScoreBands ==
    (Analyzed(call, result) /\ ~InWarning(call)) =>
        /\ result.action = C20_Band(result.score)
        /\ IF result.action = "Accumulate"
           THEN /\ result.rec_order_type = "LIMIT"
                /\ 100 * result.rec_entry_price = 98 * result.current_price
           ELSE /\ result.rec_order_type = "MARKET"
                /\ result.rec_entry_price = result.current_price

\* an analysis outside warning mode with composite score exactly 65
C20_Witness ==
    /\ Analyzed(call, result) /\ ~InWarning(call)
    /\ result.score = 650
    /\ result.action = "Accumulate"
    /\ result.rec_order_type = "LIMIT"

\* C16: when the oracle is unavailable (no API key, no model) or every
\* attempt made to it fails, analyze_single_stock does not raise: it returns
\* a complete result with sentiment sub-score 50, the oracle result being
\* score 50, sentiment NEUTRAL and a reason that names the failure.
C16_Unavailable(c) ==
    ~c.client.api_key_valid \/ ActiveModel(c.client, c.model_type) = None
C16_EveryAttemptFails(c) ==
    \A m \in ModelNames : c.service[m].fails >= MaxRetries
C16_FailureReasons ==
    {"ERROR: API Key not set", "AI Models not initialized", "Analysis Failed"}
C16_OracleFailureIsNeutral ==
    (IsAnalysis(call) /\ (C16_Unavailable(call) \/ C16_EveryAttemptFails(call))) =>
        /\ result.kind = "analysis"
        /\ result.sentiment_score = 50
        /\ result.score = 6 * 50 + 4 * result.technical_score
        /\ result.analysis.fields["score"] = Some(50)
        /\ result.analysis.fields["sentiment"] = "NEUTRAL"
        /\ result.analysis.fields["reason"] \in C16_FailureReasons
        /\ result.ai_reason = result.analysis.fields["reason"]

\* a deep analysis in which the three attempts to the pro model and the three
\* attempts to the flash model all failed
C16_Witness ==
    /\ IsAnalysis(call) /\ call.model_type = "pro" /\ call.client = Online
    /\ C16_EveryAttemptFails(call)
    /\ result.kind = "analysis"
    /\ result.attempts = 2 * MaxRetries
    /\ result.ai_reason = "Analysis Failed"

\* vocabulary of the selector's properties
NonDecreasing(seq) == \A i, j \in DOMAIN seq : i < j => seq[i] <= seq[j]
Occurrences(seq, x) == Cardinality({i \in DOMAIN seq : seq[i] = x})

\* C13: get_best_stocks returns at most 5 results, each the output of
\* exactly one deep-mode ("pro") analysis of its instrument, sorted by
\* composite score in descending order.
C13_ReturnedTopFive ==
    pc = "done" =>
        /\ Len(final_top_5) <= 5
        /\ \A i \in DOMAIN final_top_5 :
              /\ final_top_5[i].model_type = "pro"
              /\ Occurrences(analyses, <<final_top_5[i].ticker, "pro">>) = 1
              /\ \A j \in DOMAIN final_top_5 :
                    final_top_5[j].ticker = final_top_5[i].ticker => j = i
        /\ \A i, j \in DOMAIN final_top_5 :
              i < j => final_top_5[i].score >= final_top_5[j].score

\* a scan of more than 5 stocks returned 5 results, in another order than
\* they were analysed in
C13_Witness ==
    /\ pc = "done"
    /\ Len(GLOBAL_REQ_STOCKS) > 5
    /\ Len(final_top_5) = 5
    /\ \E i \in DOMAIN final_top_5 :
          final_top_5[i].ticker # top_5_candidates[i].ticker

\* C14: during one selection run the percentages reported to the progress
\* callback never decrease, and 100 is reported exactly once, at completion.
C14_ProgressMonotone ==
    /\ NonDecreasing(progress)
    /\ Occurrences(progress, 100) = (IF pc = "done" THEN 1 ELSE 0)
    /\ pc = "done" => Last(progress) = 100

\* C15: when the deep-mode analysis of one top-5 instrument fails, the
\* selector still analyses every other top-5 instrument and returns their
\* results: stage 2 is left only by returning, never by the failure.
C15_Stage2FailureIsolated ==
    [][(pc = "stage2" /\ pc' # "stage2") =>
          /\ pc' = "done"
          /\ \A i \in DOMAIN top_5_candidates :
                Occurrences(analyses', <<top_5_candidates[i].ticker, "pro">>) = 1]_vars

\* C21: an execute_order call whose side is neither "BUY" nor "SELL"
\* returns (False, message) for the invalid side and leaves cash balance,
\* positions and trade history unchanged.
C21_InvalidSideRejected ==
    [][(IsOrder(call') /\ call'.side \notin {"BUY", "SELL"}) =>
          /\ FailedWith(result', "InvalidSide")
          /\ UNCHANGED <<balance, positions, trade_history>>]_vars

\* an order of another side was made on an account that holds a position
C21_Witness ==
    /\ IsOrder(call) /\ call.side = "HOLD"
    /\ FailedWith(result, "InvalidSide")
    /\ positions # EmptyDict
    /\ trade_history # <<>>

\* C22: take-profit and stop-loss are last-write-wins per position: after a
\* successful BUY on an existing position the position's take-profit (resp.
\* stop-loss) is the order's value when the order provides one and is
\* unchanged when it provides none; a BUY that creates a position stores the
\* order's take-profit and stop-loss (or none).
C22_LastWriteWins ==
    [][(IsBuy(call') /\ Succeeded(result')) =>
          LET t == call'.ticker IN
          IF t \in DOMAIN positions
          THEN /\ positions'[t].tp =
                      IF call'.tp # None THEN call'.tp ELSE positions[t].tp
               /\ positions'[t].sl =
                      IF call'.sl # None THEN call'.sl ELSE positions[t].sl
          ELSE /\ positions'[t].tp = call'.tp
               /\ positions'[t].sl = call'.sl]_vars

\* C23: after reset, positions and trade history are empty and the cash
\* balance equals initial_balance; a new balance that is supplied (0
\* included) becomes both, and when none is supplied initial_balance is
\* unchanged and cash returns to it, whatever orders were executed before.
C23_ResetClears ==
    [][call'.op = "reset" =>
          /\ positions' = EmptyDict
          /\ trade_history' = <<>>
          /\ balance' = initial_balance'
          /\ initial_balance' = IF call'.new_balance # None
                                THEN call'.new_balance[1]
                                ELSE initial_balance]_vars

\* a reset without a new balance, on an account that an earlier reset had
\* given the initial balance 2
C23_Witness ==
    /\ call.op = "reset" /\ call.new_balance = None
    /\ initial_balance = 2 /\ balance = 2
    /\ positions = EmptyDict /\ trade_history = <<>>

\* C24: loading from a missing snapshot file is a no-op that leaves the
\* account unchanged, and loading from a corrupt file never raises and
\* leaves every account field at the value read from the file or at its
\* default.
C24_ReadOrDefault(file, key, default) ==
    IF file.type = "dict" /\ key \in DOMAIN file.fields
    THEN file.fields[key] ELSE default
C24_LoadDegrades ==
    [][call'.op = "load" =>
          /\ result'.kind # "raise"
          /\ IF call'.file = MissingFile THEN UNCHANGED ledger
             ELSE /\ balance' = C24_ReadOrDefault(call'.file, "balance", 10000000)
                  /\ initial_balance' =
                         C24_ReadOrDefault(call'.file, "initial_balance", 10000000)
                  /\ positions' = C24_ReadOrDefault(call'.file, "positions", EmptyDict)
                  /\ trade_history' =
                         C24_ReadOrDefault(call'.file, "trade_history", <<>>)]_vars

\* C25: get_portfolio_value(price_map) is the cash balance plus, over every
\* held position, quantity * (the price map's entry for the instrument if
\* there is one, else the position's average cost); it returns a value for
\* every price map, the empty one included, and changes no account state.
C25_Term(t, price_map) ==
    IF t \notin DOMAIN positions THEN FromInt(0)
    ELSE IF t \in DOMAIN price_map
         THEN FromInt(positions[t].quantity * price_map[t])
         ELSE Frac(positions[t].quantity * positions[t].avg_price.num,
                   positions[t].avg_price.den)
C25_PortfolioValue ==
    [][call'.op = "get_portfolio_value" =>
          /\ result'.kind = "value"
          /\ result'.value =
                FracAdd(FromInt(balance),
                        FracAdd(C25_Term("A", call'.current_prices),
                                C25_Term("B", call'.current_prices)))
          /\ UNCHANGED ledger]_vars

\* two positions were valued, one at a quote above its average cost and
\* one, without a quote, at its average cost
C25_Witness ==
    /\ call.op = "get_portfolio_value"
    /\ DOMAIN positions = {"A", "B"}
    /\ DOMAIN call.current_prices = {"A"}
    /\ call.current_prices["A"] = 3
    /\ positions["B"].avg_price = FromInt(2)
    /\ result.value = FromInt(balance + 3 * positions["A"].quantity
                                + 2 * positions["B"].quantity)

IsProjection == call.op = "calculate_compound_interest"

\* C27, as stated: in every row emitted by the compound-growth projector,
\* gain equals that row's total_assets minus the projector's principal
\* input.
C27_GainOverPrincipalInput ==
    IsProjection =>
        \A i \in 1..Len(result.rows) :
            result.rows[i].gain = result.rows[i].total_assets - 100 * call.principal

\* C27, amended: in every row emitted by the compound-growth projector, gain
\* equals that row's total_assets minus that row's
\* total_contributed_principal, which is principal + 12 * year * contribution.
C27_GainOverContributed ==
    IsProjection =>
        \A i \in 1..Len(result.rows) :
            LET row == result.rows[i]
            IN /\ row.gain = row.total_assets - row.total_contributed_principal
               /\ row.gain = row.total_assets
                      - 100 * (call.principal + 12 * row.year * call.monthly_contribution)

\* a row with growth and with contributions
C27_Witness ==
    /\ IsProjection
    /\ call.monthly_contribution = 30 /\ call.rate_of_return = FromInt(6)
    /\ Len(result.rows) = 1
    /\ result.rows[1].gain > 0
    /\ result.rows[1].total_contributed_principal > 100 * call.principal

RECURSIVE Power(_, _)
Power(b, n) == IF n = 0 THEN 1 ELSE b * Power(b, n - 1)

\* a^1 * b^(n-1) + a^2 * b^(n-2) + ... + a^k * b^(n-k)
RECURSIVE GrowthSum(_, _, _, _)
GrowthSum(a, b, n, k) ==
    IF k = 0 THEN 0 ELSE GrowthSum(a, b, n, k - 1) + Power(a, k) * Power(b, n - k)

\* the balance after n compounding steps balance = (balance + contribution)
\* * f with f = 1 + rate / 12:  f^n * principal + (f + ... + f^n) * contribution
AfterSteps(n, principal, contribution, rate) ==
    LET f == FracAdd(FromInt(1), Frac(rate.num, rate.den * 12))
    IN Frac(Power(f.num, n) * principal + GrowthSum(f.num, f.den, n, n) * contribution,
            Power(f.den, n))

\* C28: for a horizon of years >= 0 the projector performs exactly
\* 12 * years compounding steps balance = (balance + contribution) *
\* (1 + rate / 12) and emits exactly `years' rows, one after each 12th step,
\* with year = 1, 2, ..., years in ascending order and
\* total_contributed_principal = principal + 12 * year * contribution.
C28_StepsAndRows ==
    IsProjection =>
        /\ Len(result.rows) = call.years
        /\ \A i \in 1..Len(result.rows) :
              LET row == result.rows[i]
              IN /\ row.year = i
                 /\ row.total_contributed_principal
                        = 100 * (call.principal + 12 * i * call.monthly_contribution)
                 /\ row.total_assets
                        = Round2(AfterSteps(12 * i, call.principal,
                                            call.monthly_contribution, call.rate_of_return))

\* one year: one row, at year 1, after 12 steps of growth
C28_Witness ==
    /\ IsProjection
    /\ call.years = 1 /\ call.rate_of_return = FromInt(12)
    /\ call.principal = 1 /\ call.monthly_contribution = 1
    /\ Len(result.rows) = 1 /\ result.rows[1].year = 1
    /\ result.rows[1].total_assets = 100 * (4096 + 8190)

IsScreening == call.op = "pre_screen_stocks"

\* the place of a ticker in a pool of distinct tickers
PoolIndex(pool, t) == CHOOSE i \in DOMAIN pool : pool[i] = t

\* C29: pre_screen_stocks returns exactly one candidate per input instrument
\* (none added or dropped), ordered by pre_score descending, candidates of
\* equal pre_score being kept in their input order.
C29_ScreenedStably ==
    IsScreening =>
        LET c == result.candidates
            returned == [i \in DOMAIN c |-> c[i].ticker]
        IN /\ Len(c) = Len(call.pool)
           /\ \A t \in ScreenTickers :
                  Occurrences(returned, t) = Occurrences(call.pool, t)
           /\ \A i, j \in DOMAIN c :
                  i < j =>
                     \/ c[i].pre_score > c[j].pre_score
                     \/ /\ c[i].pre_score = c[j].pre_score
                        /\ PoolIndex(call.pool, c[i].ticker)
                               < PoolIndex(call.pool, c[j].ticker)

\* the last of three stocks is moved to the front, the other two tie
C29_Witness ==
    /\ IsScreening
    /\ call.pool = <<"A", "B", "C">>
    /\ Len(result.candidates) = 3
    /\ result.candidates[1].ticker = "C"
    /\ result.candidates[2].ticker = "A"
    /\ result.candidates[3].ticker = "B"
    /\ result.candidates[2].pre_score = result.candidates[3].pre_score
    /\ result.candidates[2].is_surging # result.candidates[3].is_surging

\* C30: a snapshot is a value independent of the live account: after a
\* snapshot is taken with to_dict, further successful orders leave it
\* unchanged, so that from_dict(snapshot) restores exactly the cash balance,
\* positions and trade history of the time it was taken (and the accounts
\* restored from one snapshot share no positions or history through it).
C30_SnapshotIndependent ==
    /\ [][(snapshot.data # NullValue /\ IsOrder(call') /\ Succeeded(result'))
          => snapshot'.data = snapshot.data]_vars
    /\ [][(call'.op = "from_dict" /\ call'.held /\ result'.kind # "raise")
          => /\ balance' = snapshot.data.fields["balance"]
             /\ positions' = snapshot.data.fields["positions"]
             /\ trade_history' = snapshot.data.fields["trade_history"]
             /\ snapshot'.data = snapshot.data]_vars

\* C31: for balance >= 0, 0 < risk_fraction <= 1 and price > 0 the amount
\* returned by calculate_position_size never exceeds the balance, so a BUY of
\* the recommended quantity at that price on an account with that cash
\* balance never fails with InsufficientFunds.
C31_RecommendedAffordable ==
    [][(/\ IsBuy(call')
        /\ balance >= 0 /\ call'.price > 0
        /\ call'.quantity = PositionSize(balance, call'.price, AppRiskPercent).qty)
       => /\ PositionSize(balance, call'.price, AppRiskPercent).amount <= balance
          /\ ~FailedWith(result', "InsufficientFunds")]_vars

\* C32: from a freshly constructed or reset account, after any sequence of
\* execute_order calls with positive quantities, the held quantity of every
\* instrument (0 when absent from the mapping) is the sum of the quantities
\* of its BUY records minus that of its SELL records, and the cash balance is
\* initial_balance minus the sum of the BUY totals plus the sum of the SELL
\* totals, each record having total = quantity * price.
C32_LedgerMatchesHistory ==
    LET h == trade_history
        n == Len(trade_history)
    IN /\ \A t \in Tickers :
              (IF Holds(t) THEN positions[t].quantity ELSE 0)
                  = SumQuantity(h, n, {t}, "BUY") - SumQuantity(h, n, {t}, "SELL")
       /\ \A i \in 1..n : h[i].total = h[i].quantity * h[i].price
       /\ balance = initial_balance - SumNotional(h, n, Tickers, "BUY")
                                    + SumNotional(h, n, Tickers, "SELL")

\* after a reset to a new balance, a purchase and a sale of a part of it
C32_Witness ==
    /\ initial_balance = 2 /\ Len(trade_history) = 2
    /\ trade_history[1].side = "BUY" /\ trade_history[2].side = "SELL"
    /\ \E t \in Tickers : Holds(t) /\ positions[t].quantity = 1
    /\ balance = 1

IsSentiment == call.op = "analyze_sentiment"

\* the calls one tier attempt makes to model m, and whether it fails
C33_TierCalls(m) ==
    IF call.service[m].fails < 3 THEN call.service[m].fails + 1 ELSE 3
C33_TierFails(m) ==
    call.service[m].fails >= 3 \/ call.service[m].content = InvalidJson

\* C33: the oracle's tier fallback is bounded: a deep-tier (pro) request
\* makes at most two tier attempts, the deep model first (when the client has
\* one) and on its failure the fast model exactly once; a fast-tier request
\* never falls back; each tier attempt calls the model at most 3 times and
\* stops at the first success; every request returns a result.
C33_FallbackBounded ==
    IsSentiment =>
        LET tiers == result.analysis.models
            deep == call.model_type = "pro"
        IN /\ result.analysis.value.type \in {"dict", "list", "null"}
           /\ Len(tiers) <= (IF deep THEN 2 ELSE 1)
           /\ Len(tiers) = 2 =>
                 (tiers = <<"pro", "flash">> /\ C33_TierFails("pro"))
           /\ (deep /\ tiers # <<>> /\ call.client.pro_model # None)
                 => tiers[1] = "pro"
           /\ (deep /\ tiers # <<>> /\ tiers[1] = "pro" /\ C33_TierFails("pro")
                    /\ call.client.flash_model # None)
                 => Len(tiers) = 2
           /\ result.analysis.attempts
                 = (IF Len(tiers) >= 1 THEN C33_TierCalls(tiers[1]) ELSE 0)
                   + (IF Len(tiers) = 2 THEN C33_TierCalls(tiers[2]) ELSE 0)
           /\ result.analysis.attempts <= 3 * Len(tiers)

\* a deep request: three failed calls to the pro model, then the flash model
\* answers at its third call
C33_Witness ==
    /\ IsSentiment /\ call.model_type = "pro" /\ call.client = Online
    /\ call.service["pro"].fails = 3 /\ call.service["flash"].fails = 2
    /\ result.analysis.models = <<"pro", "flash">>
    /\ result.analysis.attempts = 6
    /\ result.analysis.value = ScoreDict(Some(70))

\* C34: order validation rejects zero and negative quantities: an
\* execute_order call (BUY or SELL) with quantity <= 0 returns a failure
\* result and leaves cash balance, positions and trade history unchanged.
C34_NonPositiveQuantityRejected ==
    [][(IsOrder(call') /\ call'.side \in {"BUY", "SELL"} /\ call'.quantity <= 0) =>
          /\ Failed(result')
          /\ UNCHANGED <<balance, positions, trade_history>>]_vars

\* C35: for every sentiment sub-score in 0..100 and every indicator bundle,
\* the technical sub-score lies in 0..100 and the composite score of the
\* analysis result lies in 0..100 (0..1000 tenths), in normal and in warning
\* market status.
C35_ScoresInRange ==
    (Analyzed(call, result) /\ result.sentiment_score \in 0..100) =>
        /\ result.technical_score \in 0..100
        /\ result.score >= 0 /\ result.score <= 1000

\* the tickers of a list of candidates or results, in order
TickersOf(seq) == [i \in DOMAIN seq |-> seq[i].ticker]
Flash(seq) == Cardinality({i \in DOMAIN seq : seq[i][2] = "flash"})

\* C36: in one selector run the phases occur in the order pre-screen,
\* stage-1 scan, rank, stage-2 deep, done, none being revisited: the
\* pre-screen of the whole universe completes before any fast analysis, every
\* fast analysis (run only on the top-K pre-screened instruments) completes
\* before any deep analysis starts, and deep analysis is run only on the
\* instruments ranked in the top 5 of the stage-1 results by composite score.
C36_PoolIsTopK ==
    /\ Len(deep_analysis_pool) <= 5
    /\ \A i, j \in DOMAIN deep_analysis_pool :
          i < j => /\ deep_analysis_pool[i].pre_score >= deep_analysis_pool[j].pre_score
                   /\ deep_analysis_pool[i].ticker # deep_analysis_pool[j].ticker
    /\ \A i \in DOMAIN deep_analysis_pool :
          \E k \in DOMAIN GLOBAL_REQ_STOCKS :
              GLOBAL_REQ_STOCKS[k] = deep_analysis_pool[i].ticker
C36_FastThenDeep ==
    LET fast == Flash(analyses) IN
    /\ fast <= Len(deep_analysis_pool)
    /\ \A i \in DOMAIN analyses :
          IF i <= fast
          THEN analyses[i] = <<deep_analysis_pool[i].ticker, "flash">>
          ELSE /\ fast = Len(deep_analysis_pool)
               /\ i - fast <= Len(top_5_candidates)
               /\ analyses[i] = <<top_5_candidates[i - fast].ticker, "pro">>
C36_DeepOnTopFive ==
    top_5_candidates # <<>> =>
        /\ Len(top_5_candidates) <= 5
        /\ Len(ranked_stocks) = Len(deep_analysis_pool)
        /\ \A t \in {deep_analysis_pool[i].ticker : i \in DOMAIN deep_analysis_pool} :
              Occurrences(TickersOf(ranked_stocks), t) = 1
        /\ \A i, j \in DOMAIN ranked_stocks :
              i < j => ranked_stocks[i].score >= ranked_stocks[j].score
        /\ \A i \in DOMAIN ranked_stocks :
              IF i <= 5 THEN /\ i <= Len(top_5_candidates)
                             /\ top_5_candidates[i] = ranked_stocks[i]
              ELSE i > Len(top_5_candidates)
C36_PhaseOrder ==
    /\ pc = "idle" => pc' \in {"idle", "stage1"}
    /\ pc = "stage1" => pc' \in {"stage1", "stage2", "raised"}
    /\ pc = "stage2" => pc' \in {"stage2", "done", "raised"}
    /\ pc \in {"done", "raised"} => pc' \in {pc, "stage1"}
    /\ (pc # "stage1" /\ pc' = "stage1") => analyses' = <<>>
    /\ (pc = "stage1" /\ pc' = "stage2") => Flash(analyses) = Len(deep_analysis_pool)
C36_PhasesInOrder ==
    /\ [](C36_PoolIsTopK /\ C36_FastThenDeep /\ C36_DeepOnTopFive)
    /\ [][C36_PhaseOrder]_vars

\* a finished run: the sixth stock of the universe was screened into the
\* pool, five fast and five deep analyses were made, and the ranking changed
\* the order of the pool
C36_Witness ==
    /\ pc = "done"
    /\ Len(GLOBAL_REQ_STOCKS) > 5
    /\ deep_analysis_pool[1].ticker = GLOBAL_REQ_STOCKS[6]
    /\ Len(analyses) = 10 /\ Flash(analyses) = 5
    /\ TickersOf(top_5_candidates) # TickersOf(deep_analysis_pool)

\* C37: the stage-2 loop of the selector checks a cancellation flag between
\* the iterations: once cancellation is requested, no further deep-mode
\* analysis is started and the run ends early.
C37_CancelStopsStage2 ==
    [][(call.op = "cancel" /\ pc = "stage2") =>
          (analyses' = analyses /\ pc' # "stage2")]_vars

\* C38: when no news is available for an instrument, analyze_single_stock
\* calls the sentiment oracle once, with empty text (for which, as for every
\* text shorter than 5 characters, the oracle builds the forced-inference
\* prompt), and the provenance of the result is "Macro AI Inference"; when
\* news is available it calls the oracle once with the news text, and the
\* provenance is never that tag.
C38_NoNewsIsMacroInference ==
    Analyzed(call, result) =>
        /\ \A i \in DOMAIN result.prompts :
              (result.prompts[i] = "forced") = (result.oracle_text < 5)
        /\ IF call.news = 0
           THEN /\ result.oracle_text = 0
                /\ result.news_source = "Macro AI Inference"
           ELSE /\ result.oracle_text >= 5
                /\ result.news_source # "Macro AI Inference"

\* a deep analysis without news in which the pro model failed: both tiers
\* were given the forced-inference prompt
C38_Witness ==
    /\ Analyzed(call, result) /\ call.news = 0 /\ call.model_type = "pro"
    /\ result.models = <<"pro", "flash">>
    /\ result.prompts = <<"forced", "forced">>
    /\ result.news_source = "Macro AI Inference"

\* the step leaves the positions of every instrument but t as they were
C39_OthersUnchanged(t) ==
    \A o \in Tickers \ {t} :
        /\ (o \in DOMAIN positions') = (o \in DOMAIN positions)
        /\ o \in DOMAIN positions => positions'[o] = positions[o]
\* the step is a successful sale of less than the held quantity
C39_PartialSale ==
    /\ IsSell(call') /\ Succeeded(result')
    /\ call'.quantity < positions[call'.ticker].quantity

\* C39: a successful SELL of less than the held quantity changes only the
\* cash balance, the sold position's quantity and the trade history: the
\* sold position's average cost, take-profit and stop-loss, the positions of
\* all other instruments and initial_balance are unchanged; likewise every
\* BUY leaves the positions of all other instruments and initial_balance
\* unchanged.
C39_SaleAndBuyFrame ==
    [][/\ C39_PartialSale =>
            LET t == call'.ticker IN
            /\ t \in DOMAIN positions'
            /\ positions'[t] =
                   [positions[t] EXCEPT !.quantity = @ - call'.quantity]
            /\ C39_OthersUnchanged(t)
            /\ initial_balance' = initial_balance
       /\ IsBuy(call') =>
            /\ C39_OthersUnchanged(call'.ticker)
            /\ initial_balance' = initial_balance]_vars

\* one of two units with a take-profit and a stop-loss was just sold while
\* the other instrument is held
C39_Witness ==
    /\ IsSell(call) /\ Succeeded(result)
    /\ DOMAIN positions = Tickers
    /\ positions[call.ticker].quantity = 1
    /\ positions[call.ticker].tp = Some(3)
    /\ positions[call.ticker].sl = Some(5)
    /\ Len(trade_history) = 3

====
